---- MODULE Spec2Model ----
(***************************************************************************)
(* A model of the borrow-or-share crate (src/src/lib.rs).                  *)
(*                                                                         *)
(* The crate is a trait design: the capability Bos<T> with its             *)
(* lifetime-indexed family Ref<'this>, the adapter BorrowOrShare<'i,'o,T>  *)
(* with its blanket impl, and the catalog of implementations.  A behaviour *)
(* of the model is one program using the crate: it constructs one          *)
(* implementer, calls the adapter on it, moves, mutates and drops the      *)
(* implementer and the data outside it.  A lifetime is the last program    *)
(* point it covers, so 'x: 'y is x >= y.  Every call is type-checked with  *)
(* the where-clauses of the source; an accepted call yields a reference,   *)
(* kept in `refs`; a rejected call is kept in `rejected`, and the program  *)
(* that makes it does not compile, so nothing follows it.  Moving,         *)
(* mutating and dropping are subject to the loans the accepted calls have  *)
(* taken, as the borrow checker enforces them.                             *)
(***************************************************************************)
EXTENDS Integers, FiniteSets

VARIABLES now, imp, mem, refs, rejected

vars == <<now, imp, mem, refs, rejected>>

\* ------------------------------------------------------------- bounds
\* The last program point of a run.
MaxTime == 2
\* How many references a run keeps.
MaxRefs == 2
\* How many times the implementer is moved or mutated.
MaxEpoch == 1

\* The lifetime 'static: it outlives every program point.
Static == MaxTime + 1

\* The lifetimes a program can name: those ending at a program point, and
\* 'static.
Lifetimes == 0..Static

Contents == {"hello", "hi"}

\* ------------------------------------------------------------- catalog
\* &'a T (lines 249-256).
SharedRefKinds == {"Ref"}

\* Every impl generated by impl_bos! (lines 274-298); Cow<'_, B> is one
\* impl, and a value of it holds either variant.
ImplBosKinds ==
    {"MutRef", "Array", "Vec", "String", "CString", "OsString", "PathBuf",
     "Box", "CowBorrowed", "CowOwned", "Rc", "Arc"}

Catalog == SharedRefKinds \cup ImplBosKinds

CowKinds == {"CowBorrowed", "CowOwned"}

\* The implementers whose type carries a lifetime parameter:
\* &'a T, &'a mut T, Cow<'a, B>.
LifetimeKinds == {"Ref", "MutRef", "CowBorrowed", "CowOwned"}

\* Where the target data of a value lives.
ExtPointing == {"Ref", "MutRef", "CowBorrowed"}
InlineKinds == {"Array"}
HeapKinds == Catalog \ (ExtPointing \cup InlineKinds)

\* The implementers that hold a shared borrow of the external data.
SharedExtKinds == {"Ref", "CowBorrowed"}

\* ------------------------------------------------------------- memory
ExtAddr == <<"ext", 0>>
HeapAddr == <<"heap", 0>>
Slot(k) == <<"slot", k>>
Addrs == {ExtAddr, HeapAddr} \cup {Slot(k) : k \in 0..(MaxEpoch + 1)}

NoImp ==
    [state |-> "none", kind |-> "Ref", at |-> Slot(0), ptr |-> ExtAddr,
     a |-> Static, epoch |-> 0]

NoCall == [mode |-> "none", i |-> 0, o |-> 0, l |-> 0]

Other(c) == IF c = "hello" THEN "hi" ELSE "hello"

\* ------------------------------------------------------------- types
\* 'x: 'y.
Outlives(x, y) == x >= y

\* B: 'l, for an implementer of kind k whose lifetime parameter is a.
TypeOutlives(k, a, l) == k \in LifetimeKinds => Outlives(a, l)

\* ------------------------------------------------------------- Bos::Ref
\* Mutants of RefLt.
RefLt_widened(k, this, a) == IF k \in SharedRefKinds THEN a ELSE Static

RefLt_mutRefShares(k, this, a) ==
    IF k \in SharedRefKinds \cup {"MutRef"} THEN a ELSE this

RefLt_refBorrows(k, this, a) == this

RefLt_cowShares(k, this, a) ==
    IF k \in SharedRefKinds \cup CowKinds THEN a ELSE this

\* The lifetime of the reference type Bos::Ref<'this> of an implementer of
\* kind k: &'a T declares `type Ref<'this> = &'a T`, every impl_bos! impl
\* declares `type Ref<'this> = &'this $target`.
RefLt(k, this, a) == IF k \in SharedRefKinds THEN a ELSE this

\* ------------------------------------------------------------- blanket impl
\* Mutants of WhereClauses.
WhereClauses_noRefBound(k, a, i, o) == TypeOutlives(k, a, i)

WhereClauses_reversed(k, a, i, o) ==
    /\ TypeOutlives(k, a, i)
    /\ Outlives(o, RefLt(k, i, a))

\* The where-clauses of `impl BorrowOrShare<'i, 'o, T> for B`:
\* B: Bos<T> + 'i and B::Ref<'i>: 'o.  A reference type &'x T outlives 'o
\* exactly when 'x does (T: 'x holds of a well-formed &'x T).
WhereClauses(k, a, i, o) ==
    /\ TypeOutlives(k, a, i)
    /\ Outlives(RefLt(k, i, a), o)

\* ------------------------------------------------------------- raw method
\* Mutants of the raw methods.
SharedRefBorrowOrShare_handle(v) == v.at

ImplBosBorrowOrShare_handle(v) == v.at

\* Bos::borrow_or_share of &'a T: `this` is &&'a T and the body `this` is
\* the stored reference, copied out.
SharedRefBorrowOrShare(v) == v.ptr

\* Bos::borrow_or_share of an impl_bos! impl: the body `this` is &Self
\* coerced to &$target: the array itself for [T; N], the pointee for the
\* other implementers.
ImplBosBorrowOrShare(v) == IF v.kind \in InlineKinds THEN v.at ELSE v.ptr

BosBorrowOrShare(v) ==
    IF v.kind \in SharedRefKinds
    THEN SharedRefBorrowOrShare(v)
    ELSE ImplBosBorrowOrShare(v)

\* Mutant of Cast: a cast that re-targets the reference when the lifetime
\* it is cast to differs from the one it has (a copy into a temporary).
Cast_retarget(p, x, o) == IF x = o THEN p ELSE Slot(MaxEpoch + 1)

\* internal::Ref::cast of &'x T to &'o T, where Self: 'o: `self`, the same
\* pointer.
Cast(p, x, o) == p

\* BorrowOrShare::borrow_or_share(&'i self) -> &'o T of the blanket impl:
\* (B::borrow_or_share(self) as B::Ref<'i>).cast().
Adapter(v, i, o) == Cast(BosBorrowOrShare(v), RefLt(v.kind, i, v.a), o)

\* A reference a call has returned: its address, the content seen through
\* it, the lifetimes i and o the adapter was used at, the duration l the
\* caller borrowed the implementer for and the lifetime ol of the reference
\* the caller got, the kind of caller, the epoch of the implementer it was
\* obtained from, and the number of the call.
NewRef(m, i, o, l, ol) ==
    [addr |-> Adapter(imp, i, o), val |-> mem[Adapter(imp, i, o)],
     mode |-> m, i |-> i, o |-> o, l |-> l, ol |-> ol,
     epoch |-> imp.epoch]

\* ------------------------------------------------------------- generic callers
\* Mutant of FixedPairCall: the result coerced the wrong way.
FixedPairCall_retReversed(i, o, l) == Outlives(l, i) /\ Outlives(l, o)

\* A call of fn(&'i self) -> &'o T, known by the bound
\* B: BorrowOrShare<'i, 'o, T> alone, from fn as_ref(&'l self) -> &'l T:
\* &'l Self must coerce to &'i Self ('l: 'i) and &'o T to &'l T ('o: 'l).
FixedPairCall(i, o, l) == Outlives(l, i) /\ Outlives(o, l)

\* The same call under the bound B: Bos<T>: the blanket impl is used at
\* 'i = 'o = 'l.
BosCall(k, a, l) == WhereClauses(k, a, l, l)

\* ------------------------------------------------------------- loans
\* A shared borrow of the implementer, taken by a call, is still live.
SelfLoanLive == \E r \in refs : r.l >= now

\* The implementer's borrow of the external data is still live.
ExtLoanLive ==
    /\ imp.state # "none"
    /\ imp.kind \in ExtPointing
    /\ imp.a >= now

\* Where the target data of the implementer is.
TargetAddr(v) ==
    IF v.kind \in InlineKinds THEN v.at
    ELSE IF v.kind \in HeapKinds THEN HeapAddr ELSE ExtAddr

\* The program compiles so far: no call of it has been rejected.
Compiles == rejected.mode = "none"

\* ------------------------------------------------------------- actions
Init ==
    /\ now = 0
    /\ imp = NoImp
    /\ mem = [x \in Addrs |-> "free"]
    /\ refs = {}
    /\ rejected = NoCall

\* A value of a catalog type is constructed: an owning one holds the text
\* "hello"; one that points at external data borrows, for 'a, a "hello"
\* that lives outside it.
Construct(k, a) ==
    LET c == "hello" IN
    /\ Compiles
    /\ imp.state = "none"
    /\ a >= now
    /\ k \notin LifetimeKinds => a = Static
    /\ imp' = [state |-> "live", kind |-> k, at |-> Slot(0),
               ptr |-> IF k \in ExtPointing THEN ExtAddr ELSE HeapAddr,
               a |-> a, epoch |-> 0]
    /\ mem' = [x \in Addrs |->
                 IF x = Slot(0)
                 THEN (IF k \in InlineKinds THEN c ELSE "handle")
                 ELSE IF x = HeapAddr /\ k \in HeapKinds THEN c
                 ELSE IF x = ExtAddr /\ k \in ExtPointing THEN c
                 ELSE mem[x]]
    /\ UNCHANGED <<now, refs, rejected>>

\* The outcome of a call: accepted, it returns its reference; rejected, it
\* is kept as the call the program does not compile for.
Outcome(ok, m, i, o, l, ol) ==
    /\ ok => Cardinality(refs) < MaxRefs
    /\ refs' = IF ok THEN refs \cup {NewRef(m, i, o, l, ol)} ELSE refs
    /\ rejected' = IF ok THEN rejected
                   ELSE [mode |-> m, i |-> i, o |-> o, l |-> l]
    /\ UNCHANGED <<now, imp, mem>>

\* self.borrow_or_share() at the concrete implementer type, with access
\* duration i and requested result duration o.
BorrowOrShare(i, o) ==
    /\ Compiles
    /\ imp.state = "live"
    /\ i >= now /\ o >= now
    /\ Outcome(WhereClauses(imp.kind, imp.a, i, o), "concrete", i, o, i, o)

\* fn as_ref(&'l self) -> &'l T written under the bound B: Bos<T>
\* (lines 121-125).
AsRefBos(l) ==
    /\ Compiles
    /\ imp.state = "live"
    /\ l >= now
    /\ TypeOutlives(imp.kind, imp.a, l)
    /\ Outcome(BosCall(imp.kind, imp.a, l), "bos", l, l, l, l)

\* The same as_ref written under the bound B: BorrowOrShare<'i, 'o, T>
\* for one pair (lines 99-103), at an implementer the bound holds of.
AsRefFixedPair(i, o, l) ==
    /\ Compiles
    /\ imp.state = "live"
    /\ i >= now /\ o >= now /\ l >= now
    /\ WhereClauses(imp.kind, imp.a, i, o)
    /\ TypeOutlives(imp.kind, imp.a, l)
    /\ Outcome(FixedPairCall(i, o, l), "fixed", i, o, l, l)

\* The implementer is moved to another place: allowed while no borrow of
\* it is live.
Move ==
    /\ Compiles
    /\ imp.state = "live"
    /\ ~SelfLoanLive
    /\ TypeOutlives(imp.kind, imp.a, now)
    /\ imp.epoch < MaxEpoch
    /\ imp' = [imp EXCEPT !.at = Slot(imp.epoch + 1), !.epoch = @ + 1]
    /\ mem' = [mem EXCEPT ![Slot(imp.epoch + 1)] = mem[imp.at],
                          ![imp.at] = "moved"]
    /\ UNCHANGED <<now, refs, rejected>>

\* The target data is changed through the implementer (a &mut T, or an
\* owner of the data): allowed while no borrow of it is live.
Mutate ==
    /\ Compiles
    /\ imp.state = "live"
    /\ ~SelfLoanLive
    /\ imp.kind \notin SharedExtKinds
    /\ TypeOutlives(imp.kind, imp.a, now)
    /\ imp.epoch < MaxEpoch
    /\ imp' = [imp EXCEPT !.epoch = @ + 1]
    /\ mem' = [mem EXCEPT ![TargetAddr(imp)] = Other(@)]
    /\ UNCHANGED <<now, refs, rejected>>

\* The implementer is dropped: allowed while no borrow of it is live.  An
\* owner frees its buffer; a holder of a reference frees nothing else.
DropImp ==
    /\ Compiles
    /\ imp.state = "live"
    /\ ~SelfLoanLive
    /\ imp' = [imp EXCEPT !.state = "gone"]
    /\ mem' = [x \in Addrs |->
                 IF x = imp.at THEN "freed"
                 ELSE IF x = HeapAddr /\ imp.kind \in HeapKinds THEN "freed"
                 ELSE mem[x]]
    /\ UNCHANGED <<now, refs, rejected>>

\* The external data is dropped by its owner: allowed while no borrow of
\* it is live.
DropExt ==
    /\ Compiles
    /\ mem[ExtAddr] \in Contents
    /\ ~ExtLoanLive
    /\ mem' = [mem EXCEPT ![ExtAddr] = "freed"]
    /\ UNCHANGED <<now, imp, refs, rejected>>

\* The program moves on to its next point.
Tick ==
    /\ Compiles
    /\ now < MaxTime
    /\ now' = now + 1
    /\ UNCHANGED <<imp, mem, refs, rejected>>

\* The programs that call the adapter at the concrete implementer type.
Next ==
    \/ \E k \in Catalog, a \in Lifetimes : Construct(k, a)
    \/ \E i \in Lifetimes, o \in Lifetimes : BorrowOrShare(i, o)
    \/ Move
    \/ Mutate
    \/ DropImp
    \/ DropExt
    \/ Tick

Spec == Init /\ [][Next]_vars

\* The programs that call the adapter from a generic as_ref.
NextGeneric ==
    \/ \E k \in Catalog, a \in Lifetimes : Construct(k, a)
    \/ \E l \in Lifetimes : AsRefBos(l)
    \/ \E i \in Lifetimes, o \in Lifetimes, l \in Lifetimes :
         AsRefFixedPair(i, o, l)
    \/ DropImp
    \/ Tick

SpecGeneric == Init /\ [][NextGeneric]_vars

\* ------------------------------------------------------------- properties
ExtAlive == mem[ExtAddr] \in Contents

\* The caller may still use the reference.
Live(r) == r.ol >= now

\* The reference still points at the data it was returned for.
Intact(r) == mem[r.addr] = r.val

\* How long the data behind a returned reference is guaranteed to stay as
\* it is: data borrowed shared from outside the implementer stays for the
\* implementer's lifetime parameter a; data in, owned by, or exclusively
\* borrowed by the implementer stays only while the implementer is
\* borrowed, that is for i.
TrueExtent(k, i, a) == IF k \in SharedExtKinds THEN a ELSE i

\* C1: no reference the adapter has returned is usable after the data it
\* points to is gone or changed, whatever the program does next within the
\* scope rules; and no accepted request asks for a result duration beyond
\* the true extent of the data (every request beyond it is rejected).
C1_SoundWidening ==
    /\ \A r \in refs : Live(r) => Intact(r)
    /\ \A r \in refs : r.o <= TrueExtent(imp.kind, r.i, imp.a)

\* A request beyond the true extent was rejected, in a program that holds
\* a live reference from an earlier accepted call.
C1_Witness ==
    /\ rejected.mode = "concrete"
    /\ rejected.o > TrueExtent(imp.kind, rejected.i, imp.a)
    /\ \E r \in refs : Live(r) /\ r.o = r.i

\* C2: on every impl_bos! implementer a call is accepted exactly when 'i
\* outlives 'o (the access &'i B being a type, B: 'i); in particular no
\* request for a result longer than the access is accepted, the &'a mut T
\* whose pointee outlives 'i included.
C2_OwningLaw ==
    imp.kind \in ImplBosKinds =>
        /\ \A r \in refs : Outlives(r.i, r.o)
        /\ (/\ rejected.mode = "concrete"
            /\ TypeOutlives(imp.kind, imp.a, rejected.i))
           => ~Outlives(rejected.i, rejected.o)

\* A &'a mut T whose pointee outlives the requested result, the request
\* rejected because it is longer than the access; an equal request was
\* accepted before.
C2_Witness ==
    /\ imp.kind = "MutRef"
    /\ rejected.mode = "concrete"
    /\ rejected.o > rejected.i
    /\ imp.a >= rejected.o
    /\ \E r \in refs : r.o = r.i

\* C3: on &'a T a call is accepted exactly when 'a outlives both 'i and
\* 'o, and the references returned for different 'o are the same.
C3_SharingLaw ==
    imp.kind \in SharedRefKinds =>
        /\ \A r \in refs : Outlives(imp.a, r.i) /\ Outlives(imp.a, r.o)
        /\ rejected.mode = "concrete" =>
             ~(Outlives(imp.a, rejected.i) /\ Outlives(imp.a, rejected.o))
        /\ \A r1, r2 \in refs : r1.addr = r2.addr /\ r1.val = r2.val

\* Two accepted calls with access shorter than 'a: one asking for 'o = 'i,
\* one for 'o = 'a.
C3_Witness ==
    /\ imp.kind \in SharedRefKinds
    /\ \E r1, r2 \in refs :
         /\ r1.i < imp.a /\ r1.o = r1.i
         /\ r2.i < imp.a /\ r2.o = imp.a

\* The implementer is a value the program can use: it is there and its
\* lifetime parameter has not ended.
Usable(v) == v.state = "live" /\ TypeOutlives(v.kind, v.a, now)

\* C4: the reference the accessor returns for an owning implementer has
\* the address of the target data of that value, where a direct borrow of
\* the target view points, and sees the content there.
C4_OwningBorrowsTarget ==
    (Usable(imp) /\ imp.kind \in ImplBosKinds) =>
        \A r \in refs :
            r.epoch = imp.epoch =>
                /\ r.addr = TargetAddr(imp)
                /\ r.val = mem[TargetAddr(imp)]

\* Scenario A: an owned text buffer "hello", moved once, then borrowed.
C4_Witness ==
    /\ Usable(imp)
    /\ imp.kind = "String"
    /\ imp.epoch > 0
    /\ \E r \in refs : r.epoch = imp.epoch /\ r.val = "hello"

\* C5: the reference the accessor returns for &'a T is the stored
\* reference: it points at the external data, not into the handle, and
\* sees the external data's content.
C5_SharedIsStoredRef ==
    imp.kind \in SharedRefKinds =>
        \A r \in refs :
            /\ r.addr = imp.ptr
            /\ r.addr = ExtAddr
            /\ r.addr # imp.at
            /\ Live(r) => r.val = mem[imp.ptr]

\* A &'a T, moved, with a reference obtained before and one after.
C5_Witness ==
    /\ imp.kind \in SharedRefKinds
    /\ imp.state = "live"
    /\ \E r1, r2 \in refs : r1.epoch < r2.epoch /\ Live(r2)

\* C6: a reference obtained from &'a T points at intact data in every
\* state in which the external data lives, the handle dropped or moved or
\* not; while a reference obtained from an owning implementer is usable,
\* that implementer has been neither dropped nor moved nor changed.
C6_Validity ==
    /\ imp.kind \in SharedRefKinds =>
         \A r \in refs : ExtAlive => Intact(r)
    /\ imp.kind \in ImplBosKinds =>
         \A r \in refs : Live(r) => imp.state = "live" /\ imp.epoch = r.epoch

\* The handle has been moved and dropped, the reference obtained from it
\* is still usable and the external data lives.
C6_Witness ==
    /\ imp.kind \in SharedRefKinds
    /\ imp.state = "gone"
    /\ imp.epoch > 0
    /\ ExtAlive
    /\ \E r \in refs : Live(r) /\ r.epoch = 0

\* C7: for Cow, in either variant, no accepted call asks for a result
\* longer than the access, and a reference is usable only while the Cow
\* itself is there, unmoved.
C7_CowIsOwning ==
    imp.kind \in CowKinds =>
        /\ \A r \in refs : r.o <= r.i
        /\ \A r \in refs : Live(r) => imp.state = "live" /\ imp.epoch = r.epoch
        /\ rejected.mode = "concrete" =>
             (rejected.o > rejected.i \/ rejected.i > imp.a)

\* A Cow holding a borrowed view of extent 'x: the request to widen to 'x
\* is rejected, the request at the access duration was accepted.
C7_Witness ==
    /\ imp.kind = "CowBorrowed"
    /\ rejected.mode = "concrete"
    /\ rejected.o = imp.a
    /\ rejected.i < imp.a
    /\ \E r \in refs : r.i = rejected.i /\ r.o = r.i

C9_BosServesEveryDuration ==
    /\ rejected.mode # "bos"
    /\ \A r \in refs : r.mode = "bos" => (r.ol = r.l /\ r.o = r.i)

\* as_ref under the Bos bound was called on a reference-holding
\* implementer, with an access shorter than 'a, and on the same value
\* again.
C9_Witness ==
    /\ imp.kind \in SharedRefKinds
    /\ \E r1, r2 \in refs :
         /\ r1.mode = "bos" /\ r2.mode = "bos"
         /\ r1.l < r2.l /\ r2.l < imp.a

\* C10: under the bound for one fixed pair ('i, 'o), the call with access
\* and result duration 'l is accepted exactly when 'l outlives 'i and 'o
\* outlives 'l.
C10_FixedPairBound ==
    /\ \A r \in refs :
         r.mode = "fixed" => (Outlives(r.l, r.i) /\ Outlives(r.o, r.l))
    /\ rejected.mode = "fixed" =>
         ~(Outlives(rejected.l, rejected.i) /\ Outlives(rejected.o, rejected.l))

\* The bound for one pair held, the call with another duration 'l was
\* rejected, and the Bos bound serves that 'l.
C10_Witness ==
    /\ rejected.mode = "fixed"
    /\ rejected.l # rejected.i
    /\ BosCall(imp.kind, imp.a, rejected.l)

====
